---- MODULE Spec2Model ----
(***************************************************************************)
(* Model of simple_stock_scraper.py: the SimpleStockScraper class (lazy    *)
(* browser handle, Yahoo Finance extraction, JSON and screenshot output)   *)
(* and the main() driver around it.                                        *)
(*                                                                         *)
(* The browser backend (seleniumbase Driver) and the file system are the   *)
(* environment: every call into them either returns or raises, chosen      *)
(* nondeterministically: Driver(), get, title, page_source, every script   *)
(* evaluation, save_screenshot, the JSON write, quit(), and os.makedirs in *)
(* the constructor.  print() is taken to return.  time.sleep and logger    *)
(* calls change no state and are left out.                                 *)
(***************************************************************************)
EXTENDS Integers, Sequences, FiniteSets

VARIABLES
    pc,          \* position of the single thread of control
    caller,      \* "main" (the CLI run) or "api" (a client of the class)
    headless,    \* args.headless / self.headless
    driver,      \* self.driver: NoDriver or a handle id
    created,     \* number of Driver() objects constructed so far (ids 1..created)
    quits,       \* quits[h]: number of quit() calls received by handle h
    symbol,      \* argument of the current get_yahoo_finance_data call
    page_title,  \* local page_title
    price, change, percent, prev_close, open_price, volume,  \* locals
    calls,       \* backend calls issued by the current run, in order
    shot,        \* TRUE when this run wrote <symbol>_screenshot.png
    json,        \* <<>> or <<record>>: what this run wrote to <symbol>_yahoo.json
    json_created,\* TRUE when this run opened <symbol>_yahoo.json for writing
    ret,         \* get_yahoo_finance_data: "none" (running), "value" (returned),
                 \* "raised" (exception in flight), "handled" (caught by main)
    result,      \* its return value: <<>> for None, <<record>> for a dict
    stdout,      \* lines printed by main so far, as <<format prefix, value>> pairs
    exit         \* <<>> while main runs, <<status>> once the process has ended

vars == <<pc, caller, headless, driver, created, quits, symbol, page_title, price, change,
          percent, prev_close, open_price, volume, calls, shot, json,
          json_created, ret, result, stdout, exit>>

(***************************************************************************)
(* Bounds and value universes                                              *)
(***************************************************************************)
MaxHandles == 2

\* quit() calls one handle may receive (a close whose quit() raises keeps the
\* handle, so a client can close it again)
MaxQuits == 2

Symbols == {"AAPL", "MSFT"}

Timestamps == {"2024-01-02T10:00:00.000001"}

NoDriver == 0

NA == "N/A"

Unbound == "<unbound>"

NoneVal == <<>>

(***************************************************************************)
(* Strings as the code inspects them: character sequences                  *)
(***************************************************************************)
Titles == {"Apple Inc. (AAPL)", "consent.example.com", "Yahoo CONSENT",
           "Consent", "con sent", "onsent"}

Chars(s) ==
    CASE s = "Apple Inc. (AAPL)" ->
           <<"A","p","p","l","e"," ","I","n","c","."," ","(","A","A","P","L",")">>
      [] s = "consent.example.com" ->
           <<"c","o","n","s","e","n","t",".","e","x","a","m","p","l","e",".","c","o","m">>
      [] s = "Yahoo CONSENT" ->
           <<"Y","a","h","o","o"," ","C","O","N","S","E","N","T">>
      [] s = "Consent" -> <<"C","o","n","s","e","n","t">>
      [] s = "con sent" -> <<"c","o","n"," ","s","e","n","t">>
      [] s = "onsent" -> <<"o","n","s","e","n","t">>
      [] s = "consent" -> <<"c","o","n","s","e","n","t">>
      [] s = "$150.25" -> <<"$","1","5","0",".","2","5">>
      [] s = "150.25" -> <<"1","5","0",".","2","5">>
      [] s = "$150" -> <<"$","1","5","0">>
      [] s = "$.25" -> <<"$",".","2","5">>
      [] s = "$150.25 USD" -> <<"$","1","5","0",".","2","5"," ","U","S","D">>
      [] s = "Apple" -> <<"A","p","p","l","e">>
      [] s = "N/A" -> <<"N","/","A">>

\* str.lower() on one character
LowerChar(c) ==
    CASE c = "A" -> "a" [] c = "C" -> "c" [] c = "E" -> "e" [] c = "I" -> "i"
      [] c = "L" -> "l" [] c = "N" -> "n" [] c = "O" -> "o" [] c = "P" -> "p"
      [] c = "S" -> "s" [] c = "T" -> "t" [] c = "U" -> "u" [] c = "D" -> "d"
      [] c = "Y" -> "y"
      [] OTHER -> c

Lower(cs) == [i \in 1..Len(cs) |-> LowerChar(cs[i])]

\* needle in hay
Contains(hay, needle) ==
    \E i \in 0..(Len(hay) - Len(needle)) :
        SubSeq(hay, i + 1, i + Len(needle)) = needle

\* variant: the comparison without lower()
IsConsentPageNoLower(title) == Contains(Chars(title), Chars("consent"))

\* variant: every page is taken for a consent page
IsConsentPageAlways(title) == TRUE

\* line 95: "consent" in page_title.lower()
IsConsentPage(title) == Contains(Lower(Chars(title)), Chars("consent"))

(***************************************************************************)
(* The in-page scripts.  A DOM is given by what querySelectorAll returns   *)
(* for each selector of a script's list, in order (m[i] is the sequence of *)
(* textContent values of the elements selector i matches), and, for the    *)
(* price script, by the textContent of every element of the document.      *)
(***************************************************************************)
IsDigit(c) == c \in {"0", "1", "2", "5"}

\* line 142: /^\$\d+\.\d+$/.test(text)
IsDollarAmount(text) ==
    LET cs == Chars(text) IN
    /\ Len(cs) >= 4
    /\ cs[1] = "$"
    /\ \E k \in 3..(Len(cs) - 1) :
          /\ cs[k] = "."
          /\ \A i \in 2..(k - 1) : IsDigit(cs[i])
          /\ \A i \in (k + 1)..Len(cs) : IsDigit(cs[i])

\* index of the first i in 1..Len(xs) with P, or 0
FirstIndex(flags) ==
    IF \E i \in DOMAIN flags : flags[i]
    THEN CHOOSE i \in DOMAIN flags :
             flags[i] /\ \A j \in DOMAIN flags : j < i => ~flags[j]
    ELSE 0

\* the selector loops (lines 131-136, 157-162, 174-179): the first element of
\* the first selector that matches anything, as <<text>>, or <<>>
FirstSelectorMatch(m) ==
    LET i == FirstIndex([j \in DOMAIN m |-> Len(m[j]) > 0]) IN
    IF i = 0 THEN <<>> ELSE <<m[i][1]>>

\* variant: an empty string where the scripts return "N/A"
FallbackEmpty(found) == IF found = <<>> THEN "" ELSE found[1]

\* lines 147, 164, 181, 189, 194, 199: return "N/A" when nothing matched
OrNA(found) == IF found = <<>> THEN NA ELSE found[1]

\* lines 122-148: the price script
PriceScript(m, texts) ==
    LET bySelector == FirstSelectorMatch(m)
        k == FirstIndex([j \in DOMAIN texts |-> IsDollarAmount(texts[j])])
    IN IF bySelector # <<>> THEN bySelector[1]
       ELSE OrNA(IF k = 0 THEN <<>> ELSE <<texts[k]>>)

\* lines 150-165, 167-182 (two selectors) and 187-200 (one selector)
FieldScript(m) == OrNA(FirstSelectorMatch(m))

PriceMatches == {<<>>, <<"$150.25">>, <<"$150", "$150.25">>}

ElementTexts == {<<>>, <<"150.25", "$150", "$.25", "$150.25 USD">>,
                 <<"Apple", "150.25", "$150.25", "$.25">>}

ChangeMatches == {<<>>, <<"+1.25">>, <<"-0.40", "+1.25">>}

PercentMatches == {<<>>, <<"+0.84%">>, <<"-0.27%", "+0.84%">>}

PrevCloseMatches == {<<>>, <<"149.00", "1.0">>}

OpenMatches == {<<>>, <<"149.50", "2.0">>}

VolumeMatches == {<<>>, <<"48,000,000", "3.0">>}

(***************************************************************************)
(* Result record and printing                                              *)
(***************************************************************************)
ResultKeys == {"symbol", "price", "change", "percent_change", "previous_close",
               "open", "volume", "source", "timestamp"}

\* lines 210-220
BuildResult(sym, p, c, pct, pcl, o, v, ts) ==
    [symbol |-> sym, price |-> p, change |-> c, percent_change |-> pct,
     previous_close |-> pcl, open |-> o, volume |-> v,
     source |-> "Yahoo Finance", timestamp |-> ts]

\* dict.get(key, 'N/A')
Get(d, k) == IF k \in DOMAIN d THEN d[k] ELSE NA

NoDataLines == << <<"No data available", "">> >>

SummaryLines(d) ==
    << <<"", "">>, <<"=== Stock Data ===", "">>,
       <<"Symbol: ", Get(d, "symbol")>>,
       <<"Price: ", Get(d, "price")>>,
       <<"Change: ", Get(d, "change")>>,
       <<"Percent Change: ", Get(d, "percent_change")>>,
       <<"Previous Close: ", Get(d, "previous_close")>>,
       <<"Open: ", Get(d, "open")>>,
       <<"Volume: ", Get(d, "volume")>>,
       <<"Source: ", Get(d, "source")>>,
       <<"Timestamp: ", Get(d, "timestamp")>> >>

\* line 233: not data, true of None and of the empty dict
Falsy(data) == data = NoneVal \/ DOMAIN data[1] = {}

\* lines 231-246: the lines print_stock_data(data) prints
PrintStockData(data) ==
    IF Falsy(data) THEN NoDataLines ELSE SummaryLines(data[1])

\* str(bool)
BoolStr(b) == IF b THEN "True" ELSE "False"

\* lines 259-260
HeaderLines(sym, h) ==
    << <<"Starting stock data scraper for symbol: ", sym>>,
       <<"Headless mode: ", BoolStr(h)>> >>

\* line 257 on -h/--help: the help text argparse builds from lines 251-255
UsageLines ==
    << <<"usage: simple_stock_scraper.py [-h] [--symbol SYMBOL] [--headless]", "">>,
       <<"", "">>,
       <<"Simple Stock Data Scraper", "">>,
       <<"", "">>,
       <<"options:", "">>,
       <<"  -h, --help       show this help message and exit", "">>,
       <<"  --symbol SYMBOL  Stock symbol to scrape", "">>,
       <<"  --headless       Run in headless mode", "">> >>

ParseOutcomes == {"accepted", "rejected", "help"}

CompletedLines == << <<"", "">>, <<"Scraping completed successfully!", "">> >>

ErrorLine == <<"An error occurred: ", "Driver failed to start">>

(***************************************************************************)
(* Variable groups                                                         *)
(***************************************************************************)
session == <<driver, created, quits>>

locals == <<page_title, price, change, percent, prev_close, open_price, volume>>

files == <<shot, json, json_created>>

process == <<caller, headless, stdout, exit>>

\* one backend call: what was called, whether it raised, what it returned,
\* and (for a probe) whether the document held anything for it to find
Call(op, raised, val, found) ==
    Append(calls, [op |-> op, raised |-> raised,
                   val |-> IF raised THEN "" ELSE val,
                   found |-> IF raised THEN FALSE ELSE found])

AnyMatch(m) == \E i \in DOMAIN m : m[i] # <<>>

HasDollarText(texts) == \E i \in DOMAIN texts : texts[i] = "$150.25"

(***************************************************************************)
(* Browser session: _init_selenium and close                               *)
(***************************************************************************)
\* line 46: if self.driver is None
NeedsDriver(d) == d = NoDriver

\* lines 44-48; started says whether Driver(...) returns a handle or raises
InitSelenium(started) ==
    IF NeedsDriver(driver) /\ started
    THEN /\ created' = created + 1
         /\ driver' = created + 1
         /\ quits' = quits
    ELSE UNCHANGED session

InitSeleniumRaises(started) == NeedsDriver(driver) /\ ~started

\* lines 50-55; quit_raises says whether driver.quit() raises.  The handle
\* receives the call either way; when it raises, line 55 is not reached and
\* the exception leaves close()
Close(quit_raises) ==
    IF driver # NoDriver
    THEN /\ quits' = [quits EXCEPT ![driver] = @ + 1]
         /\ driver' = IF quit_raises THEN driver ELSE NoDriver
         /\ created' = created
    ELSE UNCHANGED session

CloseRaises(quit_raises) == driver # NoDriver /\ quit_raises

(***************************************************************************)
(* get_yahoo_finance_data, one action per backend call                     *)
(***************************************************************************)
\* entry of get_yahoo_finance_data(sym): nothing bound, nothing issued yet
BeginRun(sym) ==
    /\ symbol' = sym
    /\ page_title' = Unbound /\ price' = Unbound /\ change' = Unbound
    /\ percent' = Unbound /\ prev_close' = Unbound /\ open_price' = Unbound
    /\ volume' = Unbound
    /\ calls' = <<>> /\ shot' = FALSE /\ json' = <<>> /\ json_created' = FALSE
    /\ ret' = "none" /\ result' = NoneVal
    /\ pc' = "gy_init"

\* variant: _init_selenium called inside the try block
StartFailedCaught ==
    /\ ret' = "value" /\ result' = NoneVal /\ pc' = "gy_return"

\* line 74 stands outside the try: its exception leaves the function
StartFailed ==
    /\ ret' = "raised" /\ result' = NoneVal /\ pc' = "gy_return"

\* variant: the handler logs and re-raises
ScrapeFailedReraise ==
    /\ ret' = "raised" /\ result' = NoneVal /\ pc' = "gy_return"

\* lines 226-228: except Exception: log, return None
ScrapeFailed ==
    /\ ret' = "value" /\ result' = NoneVal /\ pc' = "gy_return"

\* line 74
GY_Init ==
    /\ pc = "gy_init"
    /\ \E started \in BOOLEAN :
          /\ started => created < MaxHandles
          /\ InitSelenium(started)
          /\ calls' = IF NeedsDriver(driver)
                      THEN Call("Driver", ~started, BoolStr(headless), TRUE)
                      ELSE calls
          /\ IF InitSeleniumRaises(started)
             THEN StartFailed
             ELSE pc' = "gy_get" /\ UNCHANGED <<ret, result>>
    /\ UNCHANGED <<symbol, locals, files, process>>

\* lines 76-85
GY_Navigate ==
    /\ pc = "gy_get"
    /\ \E raised \in BOOLEAN :
          /\ calls' = Call("get", raised, symbol, TRUE)
          /\ IF raised THEN ScrapeFailed
             ELSE pc' = "gy_title" /\ UNCHANGED <<ret, result>>
    /\ UNCHANGED <<symbol, locals, session, files, process>>

\* line 95: the consent block is entered only on a consent page
AfterTitle(title) == IF IsConsentPage(title) THEN "gy_consent" ELSE "gy_source"

\* lines 91-95
GY_Title ==
    /\ pc = "gy_title"
    /\ \E raised \in BOOLEAN, t \in Titles :
          /\ calls' = Call("title", raised, t, TRUE)
          /\ IF raised
             THEN ScrapeFailed /\ UNCHANGED page_title
             ELSE /\ page_title' = t
                  /\ pc' = AfterTitle(t)
                  /\ UNCHANGED <<ret, result>>
    /\ UNCHANGED <<symbol, price, change, percent, prev_close, open_price,
                   volume, session, files, process>>

\* lines 96-114: the click script; its failure is logged and swallowed
GY_Consent ==
    /\ pc = "gy_consent"
    /\ \E raised \in BOOLEAN, clicked \in {"true", "false"} :
          calls' = Call("consent_click", raised, clicked, TRUE)
    /\ pc' = "gy_source"
    /\ UNCHANGED <<symbol, locals, session, files, process, ret, result>>

\* lines 118-119
GY_PageSource ==
    /\ pc = "gy_source"
    /\ \E raised \in BOOLEAN :
          /\ calls' = Call("page_source", raised, "html", TRUE)
          /\ IF raised THEN ScrapeFailed
             ELSE pc' = "gy_price" /\ UNCHANGED <<ret, result>>
    /\ UNCHANGED <<symbol, locals, session, files, process>>

\* lines 122-148
GY_Price ==
    /\ pc = "gy_price"
    /\ \E raised \in BOOLEAN, m \in [1..4 -> PriceMatches], texts \in ElementTexts :
          /\ calls' = Call("price", raised, PriceScript(m, texts),
                         AnyMatch(m) \/ HasDollarText(texts))
          /\ IF raised
             THEN ScrapeFailed /\ UNCHANGED price
             ELSE /\ price' = PriceScript(m, texts)
                  /\ pc' = "gy_change"
                  /\ UNCHANGED <<ret, result>>
    /\ UNCHANGED <<symbol, page_title, change, percent, prev_close, open_price,
                   volume, session, files, process>>

\* lines 150-165
GY_Change ==
    /\ pc = "gy_change"
    /\ \E raised \in BOOLEAN, m \in [1..2 -> ChangeMatches] :
          /\ calls' = Call("change", raised, FieldScript(m), AnyMatch(m))
          /\ IF raised
             THEN ScrapeFailed /\ UNCHANGED change
             ELSE /\ change' = FieldScript(m)
                  /\ pc' = "gy_percent"
                  /\ UNCHANGED <<ret, result>>
    /\ UNCHANGED <<symbol, page_title, price, percent, prev_close, open_price,
                   volume, session, files, process>>

\* lines 167-182
GY_Percent ==
    /\ pc = "gy_percent"
    /\ \E raised \in BOOLEAN, m \in [1..2 -> PercentMatches] :
          /\ calls' = Call("percent_change", raised, FieldScript(m), AnyMatch(m))
          /\ IF raised
             THEN ScrapeFailed /\ UNCHANGED percent
             ELSE /\ percent' = FieldScript(m)
                  /\ pc' = "gy_prev_close"
                  /\ UNCHANGED <<ret, result>>
    /\ UNCHANGED <<symbol, page_title, price, change, prev_close, open_price,
                   volume, session, files, process>>

\* variant: the handler puts the three locals back to "N/A"
SecondaryFailedReset(pcl, o, v) ==
    /\ prev_close' = NA /\ open_price' = NA /\ volume' = NA
    /\ pc' = "gy_screenshot"

\* lines 201-202: except Exception: log a warning; the three locals keep
\* what they hold (pcl, o, v) when the exception arrives
SecondaryFailed(pcl, o, v) ==
    /\ prev_close' = pcl /\ open_price' = o /\ volume' = v
    /\ pc' = "gy_screenshot"

\* lines 185-190
GY_PrevClose ==
    /\ pc = "gy_prev_close"
    /\ \E raised \in BOOLEAN, m \in [1..1 -> PrevCloseMatches] :
          /\ calls' = Call("previous_close", raised, FieldScript(m), AnyMatch(m))
          /\ IF raised
             THEN SecondaryFailed(NA, NA, NA)
             ELSE /\ prev_close' = FieldScript(m)
                  /\ open_price' = NA /\ volume' = NA
                  /\ pc' = "gy_open"
    /\ UNCHANGED <<symbol, page_title, price, change, percent, session, files,
                   process, ret, result>>

\* lines 192-195
GY_Open ==
    /\ pc = "gy_open"
    /\ \E raised \in BOOLEAN, m \in [1..1 -> OpenMatches] :
          /\ calls' = Call("open", raised, FieldScript(m), AnyMatch(m))
          /\ IF raised
             THEN SecondaryFailed(prev_close, open_price, volume)
             ELSE /\ open_price' = FieldScript(m)
                  /\ pc' = "gy_volume"
                  /\ UNCHANGED <<prev_close, volume>>
    /\ UNCHANGED <<symbol, page_title, price, change, percent, session, files,
                   process, ret, result>>

\* lines 197-200
GY_Volume ==
    /\ pc = "gy_volume"
    /\ \E raised \in BOOLEAN, m \in [1..1 -> VolumeMatches] :
          /\ calls' = Call("volume", raised, FieldScript(m), AnyMatch(m))
          /\ IF raised
             THEN SecondaryFailed(prev_close, open_price, volume)
             ELSE /\ volume' = FieldScript(m)
                  /\ pc' = "gy_screenshot"
                  /\ UNCHANGED <<prev_close, open_price>>
    /\ UNCHANGED <<symbol, page_title, price, change, percent, session, files,
                   process, ret, result>>

\* lines 204-207
GY_Screenshot ==
    /\ pc = "gy_screenshot"
    /\ \E raised \in BOOLEAN :
          /\ calls' = Call("save_screenshot", raised, symbol, TRUE)
          /\ IF raised
             THEN ScrapeFailed /\ UNCHANGED shot
             ELSE /\ shot' = TRUE
                  /\ pc' = "gy_save"
                  /\ UNCHANGED <<ret, result>>
    /\ UNCHANGED <<symbol, locals, session, json, json_created, process>>

\* what _save_result can do: return, raise in open() (no file is made), or
\* raise in json.dump (the file was opened with "w" and holds no record)
SaveOutcomes == {"saved", "open_raises", "dump_raises"}

\* lines 209-225 with _save_result, lines 57-62
GY_Save ==
    /\ pc = "gy_save"
    /\ \E outcome \in SaveOutcomes, ts \in Timestamps :
          LET r == BuildResult(symbol, price, change, percent, prev_close,
                               open_price, volume, ts)
              raised == outcome # "saved"
          IN /\ calls' = Call("write_json", raised, symbol, TRUE)
             /\ json_created' = (outcome # "open_raises")
             /\ IF raised
                THEN ScrapeFailed /\ UNCHANGED json
                ELSE /\ json' = <<r>>
                     /\ result' = <<r>>
                     /\ ret' = "value"
                     /\ pc' = "gy_return"
    /\ UNCHANGED <<symbol, locals, session, shot, process>>

GetYahooFinanceData ==
    \/ GY_Init \/ GY_Navigate \/ GY_Title \/ GY_Consent \/ GY_PageSource
    \/ GY_Price \/ GY_Change \/ GY_Percent \/ GY_PrevClose \/ GY_Open
    \/ GY_Volume \/ GY_Screenshot \/ GY_Save

(***************************************************************************)
(* main()                                                                  *)
(***************************************************************************)
\* lines 251-260: parse_args() returns and the two header lines are printed,
\* or it ends the process: with status 2 on a command line it rejects
\* (nothing on stdout), with status 0 after printing the help text on
\* -h/--help
MainParseArgs ==
    /\ pc = "main_args"
    /\ \E outcome \in ParseOutcomes :
          CASE outcome = "accepted" ->
                 /\ stdout' = stdout \o HeaderLines(symbol, headless)
                 /\ pc' = "main_construct"
                 /\ exit' = exit
            [] outcome = "rejected" ->
                 /\ exit' = <<2>>
                 /\ pc' = "done"
                 /\ stdout' = stdout
            [] outcome = "help" ->
                 /\ stdout' = stdout \o UsageLines
                 /\ exit' = <<0>>
                 /\ pc' = "done"
    /\ UNCHANGED <<symbol, locals, calls, session, files, ret, result, caller,
                   headless>>

\* line 263 with __init__, lines 30-42: os.makedirs may raise, outside the
\* try block of main, which ends the process with status 1
MainConstruct ==
    /\ pc = "main_construct"
    /\ \E made \in BOOLEAN :
          IF made
          THEN pc' = "main" /\ exit' = exit
          ELSE pc' = "done" /\ exit' = <<1>>
    /\ UNCHANGED <<symbol, locals, calls, session, files, ret, result, caller,
                   headless, stdout>>

\* line 267: the call
MainCall ==
    /\ pc = "main"
    /\ BeginRun(symbol)
    /\ UNCHANGED <<session, process>>

\* lines 268-270
MainPrint ==
    /\ pc = "gy_return" /\ caller = "main" /\ ret = "value"
    /\ stdout' = stdout \o PrintStockData(result) \o CompletedLines
    /\ pc' = "main_finally"
    /\ UNCHANGED <<symbol, locals, calls, session, files, ret, result, caller,
                   headless, exit>>

\* variant: main without the except clause
MainExceptUncaught ==
    /\ pc = "gy_return" /\ caller = "main" /\ ret = "raised"
    /\ pc' = "main_finally"
    /\ UNCHANGED <<symbol, locals, calls, session, files, ret, result, process>>

\* lines 272-273: except Exception: print the error
MainExcept ==
    /\ pc = "gy_return" /\ caller = "main" /\ ret = "raised"
    /\ stdout' = Append(stdout, ErrorLine)
    /\ ret' = "handled"
    /\ pc' = "main_finally"
    /\ UNCHANGED <<symbol, locals, calls, session, files, result, caller,
                   headless, exit>>

\* lines 274-276; an exception still in flight after the finally block, or
\* one raised by close() itself, ends the process with status 1
MainFinally ==
    /\ pc = "main_finally"
    /\ \E quit_raises \in BOOLEAN :
          /\ Close(quit_raises)
          /\ exit' = IF ret = "raised" \/ CloseRaises(quit_raises)
                     THEN <<1>> ELSE <<0>>
    /\ pc' = "done"
    /\ UNCHANGED <<symbol, locals, calls, files, ret, result, caller, headless,
                   stdout>>

\* the process at the start of main(): nothing printed, no scraper yet
Init ==
    /\ pc = "main_args" /\ caller = "main"
    /\ headless \in BOOLEAN
    /\ driver = NoDriver /\ created = 0
    /\ quits = [h \in 1..(MaxHandles + 1) |-> 0]
    /\ symbol \in Symbols
    /\ page_title = Unbound /\ price = Unbound /\ change = Unbound
    /\ percent = Unbound /\ prev_close = Unbound /\ open_price = Unbound
    /\ volume = Unbound
    /\ calls = <<>> /\ shot = FALSE /\ json = <<>> /\ json_created = FALSE
    /\ ret = "none" /\ result = NoneVal
    /\ stdout = <<>> /\ exit = <<>>

Next ==
    \/ MainParseArgs \/ MainConstruct \/ MainCall \/ GetYahooFinanceData
    \/ MainPrint \/ MainExcept \/ MainFinally

Spec == Init /\ [][Next]_vars

(***************************************************************************)
(* A client calling the three methods of one scraper in any order          *)
(***************************************************************************)
\* _init_selenium() called directly; a failure of Driver() goes to the client
ApiInitSelenium ==
    /\ pc = "idle"
    /\ \E started \in BOOLEAN :
          /\ started => created < MaxHandles
          /\ InitSelenium(started)
    /\ UNCHANGED <<pc, symbol, locals, calls, files, ret, result, process>>

ApiGetYahooFinanceData ==
    /\ pc = "idle"
    /\ \E sym \in Symbols : BeginRun(sym)
    /\ UNCHANGED <<session, process>>

\* the call returns (or raises) to the client: its frame, with the locals
\* and the record of what this run did, is gone
ApiReturn ==
    /\ pc = "gy_return" /\ caller = "api"
    /\ pc' = "idle"
    /\ page_title' = Unbound /\ price' = Unbound /\ change' = Unbound
    /\ percent' = Unbound /\ prev_close' = Unbound /\ open_price' = Unbound
    /\ volume' = Unbound
    /\ calls' = <<>> /\ shot' = FALSE /\ json' = <<>> /\ json_created' = FALSE
    /\ ret' = "none" /\ result' = NoneVal
    /\ UNCHANGED <<symbol, session, process>>

\* close() called by the client; an exception of quit() goes to the client
ApiClose ==
    /\ pc = "idle"
    /\ driver # NoDriver => quits[driver] < MaxQuits
    /\ \E quit_raises \in BOOLEAN : Close(quit_raises)
    /\ UNCHANGED <<pc, symbol, locals, calls, files, ret, result, process>>

\* state after SimpleStockScraper(headless=...) returned
ApiInit ==
    /\ pc = "idle" /\ caller = "api"
    /\ headless \in BOOLEAN
    /\ driver = NoDriver /\ created = 0
    /\ quits = [h \in 1..(MaxHandles + 1) |-> 0]
    /\ symbol \in Symbols
    /\ page_title = Unbound /\ price = Unbound /\ change = Unbound
    /\ percent = Unbound /\ prev_close = Unbound /\ open_price = Unbound
    /\ volume = Unbound
    /\ calls = <<>> /\ shot = FALSE /\ json = <<>> /\ json_created = FALSE
    /\ ret = "none" /\ result = NoneVal
    /\ stdout = <<>> /\ exit = <<>>

ApiNext ==
    \/ ApiInitSelenium \/ ApiGetYahooFinanceData \/ GetYahooFinanceData
    \/ ApiReturn \/ ApiClose

ApiSpec == ApiInit /\ [][ApiNext]_vars

(***************************************************************************)
(* Vocabulary of the properties                                            *)
(***************************************************************************)
PrimaryOps == {"price", "change", "percent_change"}

SecondaryOps == {"previous_close", "open", "volume"}

ProbeOps == PrimaryOps \cup SecondaryOps

ScriptOps == ProbeOps \cup {"consent_click"}

Issued(op) == \E i \in DOMAIN calls : calls[i].op = op

Count(op) == Cardinality({i \in DOMAIN calls : calls[i].op = op})

Raised(op) == \E i \in DOMAIN calls : calls[i].op = op /\ calls[i].raised

Returned(op) == \E i \in DOMAIN calls : calls[i].op = op /\ ~calls[i].raised

\* the value the (single) evaluation of op returned
ValueOf(op) == calls[CHOOSE i \in DOMAIN calls : calls[i].op = op].val

Found(op) == \E i \in DOMAIN calls : calls[i].op = op /\ calls[i].found

\* the titles of Titles that hold "consent" in some letter case, listed by hand
ConsentTitles == {"consent.example.com", "Yahoo CONSENT", "Consent"}

NavigationRaised == Raised("get")

\* Driver() raised inside get_yahoo_finance_data
SessionStartFailed == Raised("Driver")

\* in a finished run of main: quit() raised inside close(), which shows in
\* the handle still being held
QuitRaised == pc = "done" /\ driver # NoDriver

ErrorPrinted == \E i \in DOMAIN stdout : stdout[i][1] = "An error occurred: "

NoDataPrinted == \E i \in DOMAIN stdout : stdout[i] = <<"No data available", "">>

SummaryLabels == <<"Symbol: ", "Price: ", "Change: ", "Percent Change: ",
                   "Previous Close: ", "Open: ", "Volume: ", "Source: ",
                   "Timestamp: ">>

SummaryKeys == <<"symbol", "price", "change", "percent_change",
                 "previous_close", "open", "volume", "source", "timestamp">>

\* the nine labeled lines of record d stand in stdout, in order, after the
\* two header lines, the blank line and the title line
LabeledSummaryPrinted(d) ==
    /\ Len(stdout) >= 13
    /\ stdout[4] = <<"=== Stock Data ===", "">>
    /\ \A k \in 1..9 : stdout[k + 4] = <<SummaryLabels[k], d[SummaryKeys[k]]>>

SummaryPrinted ==
    \/ result = NoneVal /\ NoDataPrinted
    \/ result # NoneVal /\ LabeledSummaryPrinted(result[1])

(***************************************************************************)
(* C1: after a complete run of main (get_yahoo_finance_data, then close),  *)
(* the run wrote both <symbol>_yahoo.json and <symbol>_screenshot.png or   *)
(* neither of them.  (A file the run created counts as written, whatever   *)
(* it holds.)                                                              *)
(***************************************************************************)
C1_AllOrNothing == pc = "done" => (shot <=> json_created)

(***************************************************************************)
(* C2: close() runs only after the extraction attempt has ended, and when  *)
(* main has finished every handle created in the run has received quit()   *)
(* exactly once and scraper.driver is None.                                *)
(***************************************************************************)
C2_CloseOnEveryExit ==
    /\ (\E h \in DOMAIN quits : quits[h] > 0) => pc = "done"
    /\ pc = "done" =>
          /\ driver = NoDriver
          /\ \A h \in DOMAIN quits : quits[h] = IF h <= created THEN 1 ELSE 0

(***************************************************************************)
(* C3: for any sequence of _init_selenium, get_yahoo_finance_data and      *)
(* close calls, a handle is created only while none is held, at most one   *)
(* handle that has not been quit exists, a close that finds a handle       *)
(* leaves driver None, and a handle created later is a fresh one that was  *)
(* never quit.                                                             *)
(***************************************************************************)
C3_HandleDiscipline ==
    /\ [](/\ Cardinality({h \in 1..created : quits[h] = 0}) <= 1
          /\ driver # NoDriver => driver \in 1..created /\ quits[driver] = 0
          /\ driver = NoDriver => \A h \in 1..created : quits[h] = 1)
    /\ [][/\ created' # created =>
                /\ driver = NoDriver
                /\ created' = created + 1
                /\ driver' = created'
                /\ quits'[driver'] = 0
          /\ (\E h \in DOMAIN quits : quits'[h] # quits[h]) =>
                /\ driver # NoDriver
                /\ quits' = [quits EXCEPT ![driver] = 1]
                /\ driver' = NoDriver]_vars

(***************************************************************************)
(* C4: when the title read after navigation does not contain "consent" in  *)
(* any letter case, the consent-click script is never evaluated in that    *)
(* run, and the first script evaluated, if any, is the price probe.        *)
(***************************************************************************)
C4_NoClickWithoutConsentTitle ==
    (page_title \in Titles \ ConsentTitles) =>
        /\ ~Issued("consent_click")
        /\ \A i \in DOMAIN calls :
              (calls[i].op \in ScriptOps /\ calls[i].op # "price") =>
                  \E j \in 1..(i - 1) : calls[j].op = "price"

C4_Witness == page_title = "con sent" /\ Issued("price") /\ Issued("change")

(***************************************************************************)
(* C5: when the title contains "consent" in any letter case, exactly one   *)
(* consent-click evaluation is issued, after navigation and before every   *)
(* data-extraction evaluation of the run.                                  *)
(***************************************************************************)
C5_OneClickBeforeProbes ==
    (page_title \in ConsentTitles) =>
        /\ Count("consent_click") <= 1
        /\ pc # "gy_consent" => Count("consent_click") = 1
        /\ \A i \in DOMAIN calls : calls[i].op = "consent_click" =>
              /\ \E j \in 1..(i - 1) : calls[j].op = "get" /\ ~calls[j].raised
              /\ \A j \in DOMAIN calls : calls[j].op \in ProbeOps => i < j
        /\ \A j \in DOMAIN calls : calls[j].op \in ProbeOps =>
              Issued("consent_click")

C5_Witness ==
    /\ page_title = "Yahoo CONSENT" /\ Raised("consent_click")
    /\ Returned("volume")

(***************************************************************************)
(* C6 as stated: if any of the three secondary evaluations raises, the     *)
(* written snapshot has previous_close, open and volume all "N/A".         *)
(***************************************************************************)
C6_AllThreeNA ==
    (json # <<>> /\ \E op \in SecondaryOps : Raised(op)) =>
        /\ json[1].previous_close = NA
        /\ json[1].open = NA
        /\ json[1].volume = NA

(***************************************************************************)
(* C6 amended: if one of the three secondary evaluations raises, the run   *)
(* goes on to the screenshot and, when the screenshot call returns, to the *)
(* JSON write.  In a written snapshot, which is also the returned one, the *)
(* field whose evaluation raised and the fields after it are "N/A", a      *)
(* field whose evaluation returned before the failure holds what that      *)
(* evaluation returned (the matched text, or "N/A" when nothing matched),  *)
(* so all three are "N/A" when the previous-close evaluation raises, and   *)
(* price, change and percent_change hold what their probes returned.       *)
(***************************************************************************)
C6_FailedAndLaterNA ==
    (\E op \in SecondaryOps : Raised(op)) =>
        /\ (pc = "gy_screenshot" \/ Issued("save_screenshot"))
        /\ (~Raised("save_screenshot") /\ pc # "gy_screenshot") =>
              (pc = "gy_save" \/ Issued("write_json"))
        /\ json # <<>> =>
              /\ result = json
              /\ json[1].price = ValueOf("price")
              /\ json[1].change = ValueOf("change")
              /\ json[1].percent_change = ValueOf("percent_change")
              /\ \A op \in SecondaryOps :
                    json[1][op] = IF Returned(op) THEN ValueOf(op) ELSE NA
              /\ Raised("previous_close") =>
                    \A op \in SecondaryOps : json[1][op] = NA

C6_Witness ==
    /\ json # <<>> /\ Raised("open")
    /\ json[1].previous_close = "149.00" /\ json[1].open = NA
    /\ json[1].volume = NA /\ json[1].price = "$150"

(***************************************************************************)
(* C7: a written <symbol>_yahoo.json has exactly the nine keys, and each   *)
(* of the six data fields whose probe returned no value (nothing matched,  *)
(* or the evaluation raised or never ran) is "N/A".                        *)
(***************************************************************************)
C7_NineKeysAndSentinel ==
    json # <<>> =>
        /\ DOMAIN json[1] = ResultKeys
        /\ json[1].symbol = symbol
        /\ json[1].source = "Yahoo Finance"
        /\ json[1].timestamp \in Timestamps
        /\ \A op \in ProbeOps :
              /\ ~Found(op) => json[1][op] = NA
              /\ Found(op) => json[1][op] = ValueOf(op)

C7_Witness ==
    /\ json # <<>> /\ ~Found("price") /\ Returned("price")
    /\ Raised("volume") /\ Found("open")

(***************************************************************************)
(* C8: if navigation raises, get_yahoo_finance_data returns None with no   *)
(* script evaluated, no screenshot and no JSON file; main prints           *)
(* "No data available", the handle is quit and reset, exit status is 0.    *)
(***************************************************************************)
C8_NavigationFailure ==
    NavigationRaised =>
        /\ \A i \in DOMAIN calls : calls[i].op \in {"Driver", "get"}
        /\ ~shot /\ json = <<>> /\ ~json_created
        /\ pc \in {"gy_return", "main_finally", "done"}
        /\ ret = "value" /\ result = NoneVal
        /\ pc \in {"main_finally", "done"} =>
              /\ stdout[3] = <<"No data available", "">>
              /\ ~ErrorPrinted
        /\ pc = "done" =>
              /\ driver = NoDriver /\ created = 1 /\ quits[1] = 1
              /\ exit = <<0>>

(***************************************************************************)
(* C9 as stated: whichever of the failure classes of the extraction occurs *)
(* (session start, navigation or primary extraction, consent handling,     *)
(* secondary fields), a run of main prints the stock summary (labeled, or  *)
(* "No data available") and ends with exit status 0.                       *)
(***************************************************************************)
C9_SummaryAlwaysPrinted ==
    (pc = "done" /\ Issued("Driver")) => SummaryPrinted /\ exit = <<0>>

(***************************************************************************)
(* C9 amended: a run of main that reaches get_yahoo_finance_data prints    *)
(* the stock summary after a navigation, extraction, screenshot or write   *)
(* failure, after a consent or secondary-field failure and on success; on  *)
(* a session-start failure it prints "An error occurred: ..." and no       *)
(* summary.  None of these failures gives a non-zero exit status: the      *)
(* status is 1 exactly when quit() raises inside close(), and 0 otherwise. *)
(***************************************************************************)
C9_SummaryUnlessStartFailed ==
    (pc = "done" /\ Issued("Driver")) =>
        /\ exit = IF QuitRaised THEN <<1>> ELSE <<0>>
        /\ SessionStartFailed => ~QuitRaised
        /\ IF SessionStartFailed
           THEN /\ Len(stdout) = 3 /\ stdout[3][1] = "An error occurred: "
                /\ ~SummaryPrinted
           ELSE /\ SummaryPrinted
                /\ ~ErrorPrinted
                /\ result = json

C9_Witness ==
    /\ pc = "done" /\ SessionStartFailed /\ exit = <<0>>
    /\ stdout[3][1] = "An error occurred: "

(***************************************************************************)
(* C10: a failure to create the handle inside get_yahoo_finance_data is    *)
(* not turned into a None result: it leaves the function as an exception,  *)
(* nothing is navigated, evaluated, captured or written, driver stays None.*)
(***************************************************************************)
C10_StartFailurePropagates ==
    SessionStartFailed =>
        /\ pc \in {"gy_return", "main_finally", "done"}
        /\ pc = "gy_return" => ret = "raised"
        /\ ret \in {"raised", "handled"}
        /\ Len(calls) = 1 /\ ~shot /\ json = <<>> /\ ~json_created
        /\ driver = NoDriver /\ created = 0
        /\ ~NoDataPrinted

C10_Witness == SessionStartFailed /\ pc = "gy_return" /\ ret = "raised"

====
